---------------------------- MODULE Spec2Model ----------------------------
(***************************************************************************)
(* A model of the repository layer of the entain racing / sports services: *)
(* the dynamic query composition (applyFilter, applyOrder), the row mapper *)
(* (scanEvents), List and Get, the computed race status and the run-once   *)
(* Init guard.                                                             *)
(*                                                                         *)
(* Text (Go string) is a sequence of one-character strings, so that        *)
(* splitting, trimming, replacing and joining are computed character by    *)
(* character as the Go standard library does.                              *)
(***************************************************************************)
EXTENDS Integers, Sequences, FiniteSets, TLC

VARIABLES
    ord,        \* the applyOrder call under study: its input and its output
    flt,        \* the applyFilter call under study: its input and its output
    svc,        \* which service's repository the store belongs to
    events,     \* the events table of the sports store: id -> row or NoRow
    races,      \* the races table of the racing store: id -> row or NoRow
    now,        \* the wall clock, in ticks
    call,       \* the last completed List / Get call and what it returned
    pc,         \* Init: each caller's position in Init / sync.Once.Do
    calls,      \* Init: the number of Init calls each caller has completed
    ret,        \* Init: the error each caller's last completed Init returned
    err,        \* Init: each caller's local variable err
    done,       \* Init: sync.Once's done flag
    mu,         \* Init: the holder of sync.Once's mutex, or 0
    seed        \* Init: the seed routine: runs started and finished, its position and its err

ordVars  == <<ord>>
fltVars  == <<flt>>
repoVars == <<svc, events, races, now, call>>
initVars == <<pc, calls, ret, err, done, mu, seed>>
vars     == <<ord, flt, svc, events, races, now, call, pc, calls, ret, err, done, mu, seed>>

-----------------------------------------------------------------------------
(* Bounds of the model.                                                    *)

\* The longest orderBy string tried.
MaxOrderLen == 5
\* The longest grouping-id list tried on applyFilter alone.
MaxFilterLen == 3
\* Grouping ids (sport_id, meeting_id) are 1..MaxGroup.
MaxGroup == 2
\* Row ids are 1..MaxId: a table holds at most MaxId rows.
MaxId == 2
\* The longest grouping-id list tried on List.
MaxListIds == 2
\* The clock and the stored start times are ticks 0..MaxNow.
MaxNow == 2
\* Ticks in one second: the stored times and the clock are finer than the
\* whole seconds SQLite's datetime() prints.
TicksPerSecond == 2
\* The goroutines that call Init, and the Init calls each makes in turn.
NumCallers == 2
MaxCalls == 2

-----------------------------------------------------------------------------
(* Go's strings package, on sequences of characters.                       *)

\* unicode.IsSpace on the characters the model uses.
IsSpace(c) ==
    c \in {" ", "\t"}

RECURSIVE TrimLeft(_)
TrimLeft(s) ==
    IF s # <<>> /\ IsSpace(Head(s)) THEN TrimLeft(Tail(s)) ELSE s

RECURSIVE TrimRight(_)
TrimRight(s) ==
    IF s # <<>> /\ IsSpace(s[Len(s)]) THEN TrimRight(SubSeq(s, 1, Len(s) - 1)) ELSE s

\* strings.TrimSpace: all leading and trailing white space removed.
TrimSpace(s) ==
    TrimRight(TrimLeft(s))

\* strings.Split(s, sep) for a one-character sep: the segments between the
\* separators, Count(sep) + 1 of them (one empty segment for the empty string).
RECURSIVE SplitFrom(_, _, _)
SplitFrom(s, sep, cur) ==
    IF s = <<>> THEN <<cur>>
    ELSE IF Head(s) = sep THEN <<cur>> \o SplitFrom(Tail(s), sep, <<>>)
    ELSE SplitFrom(Tail(s), sep, Append(cur, Head(s)))

Split(s, sep) ==
    SplitFrom(s, sep, <<>>)

\* strings.Replace(s, "  ", " ", -1): the non-overlapping occurrences of two
\* spaces, found from the left, each replaced by one space.
RECURSIVE ReplaceDoubleSpace(_)
ReplaceDoubleSpace(s) ==
    IF Len(s) < 2 THEN s
    ELSE IF s[1] = " " /\ s[2] = " " THEN <<" ">> \o ReplaceDoubleSpace(SubSeq(s, 3, Len(s)))
    ELSE <<s[1]>> \o ReplaceDoubleSpace(Tail(s))

\* strings.Join(elems, sep).
RECURSIVE Join(_, _)
Join(elems, sep) ==
    IF elems = <<>> THEN <<>>
    ELSE IF Len(elems) = 1 THEN elems[1]
    ELSE elems[1] \o sep \o Join(Tail(elems), sep)

\* strings.Repeat(s, count).
RECURSIVE Repeat(_, _)
Repeat(s, count) ==
    IF count <= 0 THEN <<>> ELSE s \o Repeat(s, count - 1)

-----------------------------------------------------------------------------
(* The query templates.                                                    *)

\* getEventQueries()[eventsList], its white space squeezed.
EventsListQuery ==
    <<"S","E","L","E","C","T"," ","i","d",","," ","s","p","o","r","t","_","i","d",",",
      " ","n","a","m","e",","," ","a","d","v","e","r","t","i","s","e","d","_","s","t",
      "a","r","t","_","t","i","m","e",","," ","s","t","a","t","u","s"," ","F","R","O",
      "M"," ","e","v","e","n","t","s">>

\* getRaceQueries()[racesList], its white space squeezed and the computed
\* status column written as the word status: RaceStatus below is that column.
RacesListQuery ==
    <<"S","E","L","E","C","T"," ","i","d",","," ","m","e","e","t","i","n","g","_","i",
      "d",","," ","n","a","m","e",","," ","n","u","m","b","e","r",","," ","v","i","s",
      "i","b","l","e",","," ","a","d","v","e","r","t","i","s","e","d","_","s","t","a",
      "r","t","_","t","i","m","e",","," ","s","t","a","t","u","s"," ","F","R","O","M",
      " ","r","a","c","e","s">>

OrderByKw == <<" ","O","R","D","E","R"," ","B","Y"," ">>
AdvertisedStartTime ==
    <<"a","d","v","e","r","t","i","s","e","d","_","s","t","a","r","t","_","t","i","m","e">>
CommaSpace == <<",", " ">>

-----------------------------------------------------------------------------
(* applyOrder.                                                             *)

\* The loop of applyOrder over the split fields: each value has its double
\* spaces replaced and is trimmed, and is kept when it is not empty.
\* A slip: the empty values are kept.
RECURSIVE ValidFieldsKeepEmpty(_)
ValidFieldsKeepEmpty(fields) ==
    IF fields = <<>> THEN <<>>
    ELSE <<TrimSpace(ReplaceDoubleSpace(Head(fields)))>> \o ValidFieldsKeepEmpty(Tail(fields))

RECURSIVE ValidFields(_)
ValidFields(fields) ==
    IF fields = <<>> THEN <<>>
    ELSE LET value == TrimSpace(ReplaceDoubleSpace(Head(fields)))
         IN  (IF value # <<>> THEN <<value>> ELSE <<>>) \o ValidFields(Tail(fields))

\* A slip: no fallback when no field survives.
applyOrderNoFallback(query, orderBy) ==
    IF TrimSpace(orderBy) = <<>>
    THEN query \o OrderByKw \o AdvertisedStartTime
    ELSE query \o OrderByKw \o Join(ValidFields(Split(orderBy, ",")), CommaSpace)

applyOrder(query, orderBy) ==
    IF TrimSpace(orderBy) = <<>>
    THEN query \o OrderByKw \o AdvertisedStartTime
    ELSE LET validFields == ValidFields(Split(orderBy, ","))
         IN  IF Len(validFields) = 0
             THEN query \o OrderByKw \o AdvertisedStartTime
             ELSE query \o OrderByKw \o Join(validFields, CommaSpace)

-----------------------------------------------------------------------------
(* The applyOrder call under study.                                        *)

OrderChars == {"a", "b", " ", "\t", ","}

RECURSIVE StringsUpTo(_, _)
StringsUpTo(chars, n) ==
    IF n = 0 THEN {<<>>}
    ELSE LET shorter == StringsUpTo(chars, n - 1)
         IN  shorter \cup {Append(s, c) : s \in {t \in shorter : Len(t) = n - 1}, c \in chars}

OrderInputs == StringsUpTo(OrderChars, MaxOrderLen)

OrdInit ==
    \E q \in {EventsListQuery, RacesListQuery}, o \in OrderInputs :
        ord = [pc |-> "start", query |-> q, orderBy |-> o, out |-> <<>>]

ApplyOrder ==
    /\ ord.pc = "start"
    /\ ord' = [ord EXCEPT !.pc = "done", !.out = applyOrder(ord.query, ord.orderBy)]


-----------------------------------------------------------------------------
(* applyFilter.                                                            *)

\* A filter is a record whose field nil says whether the pointer is nil; a
\* nil filter has no fields to read, and the code reads none of them.
NilEventFilter == [nil |-> TRUE, SportIds |-> <<>>]
NilRaceFilter == [nil |-> TRUE, MeetingIds |-> <<>>, ShowVisibleOnly |-> FALSE]

WhereKw == <<" ","W","H","E","R","E"," ">>
AndKw == <<" ","A","N","D"," ">>
SportIdIn == <<"s","p","o","r","t","_","i","d"," ","I","N"," ","(">>
MeetingIdIn == <<"m","e","e","t","i","n","g","_","i","d"," ","I","N"," ","(">>
VisibleIsOne == <<"v","i","s","i","b","l","e"," ","="," ","1">>

\* A slip: the WHERE clause is appended whether or not a clause was added.
HasClausesAlways(clauses) ==
    TRUE

\* len(clauses) != 0: whether the WHERE clause is appended.
HasClauses(clauses) ==
    Len(clauses) # 0

\* A slip: one placeholder too many.
SportIdsClauseOneMore(n) ==
    SportIdIn \o Repeat(<<"?", ",">>, n) \o <<"?", ")">>

\* "sport_id IN (" + strings.Repeat("?,", len(filter.SportIds)-1) + "?)"
SportIdsClause(n) ==
    SportIdIn \o Repeat(<<"?", ",">>, n - 1) \o <<"?", ")">>

\* A slip: every turn of the loop appends the last id of the list.
AppendIdsLast(args, ids) ==
    args \o [i \in 1..Len(ids) |-> ids[Len(ids)]]

\* for _, sportID := range filter.SportIds { args = append(args, sportID) }
RECURSIVE AppendIds(_, _)
AppendIds(args, ids) ==
    IF ids = <<>> THEN args ELSE AppendIds(Append(args, Head(ids)), Tail(ids))

\* sportsRepo.applyFilter: the query and the bound parameters.
applyFilter(query, filter) ==
    IF filter.nil THEN [query |-> query, args |-> <<>>]
    ELSE LET some    == Len(filter.SportIds) > 0
             clauses == IF some THEN <<SportIdsClause(Len(filter.SportIds))>> ELSE <<>>
             args    == IF some THEN AppendIds(<<>>, filter.SportIds) ELSE <<>>
         IN  [query |-> IF HasClauses(clauses)
                        THEN query \o WhereKw \o Join(clauses, AndKw)
                        ELSE query,
              args  |-> args]

\* A slip: the visibility predicate bound as a parameter and put first.
racesApplyFilterBound(query, filter) ==
    IF filter.nil THEN [query |-> query, args |-> <<>>]
    ELSE LET some    == Len(filter.MeetingIds) > 0
             inList  == IF some
                        THEN <<MeetingIdIn \o Repeat(<<"?", ",">>, Len(filter.MeetingIds) - 1)
                                 \o <<"?", ")">>>>
                        ELSE <<>>
             clauses == IF filter.ShowVisibleOnly
                        THEN <<<<"v","i","s","i","b","l","e"," ","="," ","?">>>> \o inList
                        ELSE inList
             args    == (IF filter.ShowVisibleOnly THEN <<1>> ELSE <<>>)
                            \o (IF some THEN AppendIds(<<>>, filter.MeetingIds) ELSE <<>>)
         IN  [query |-> IF Len(clauses) # 0
                        THEN query \o WhereKw \o Join(clauses, AndKw)
                        ELSE query,
              args  |-> args]

\* racesRepo.applyFilter, whose source file is not among the repository's
\* files under study: modelled from the filter compiler's description, the
\* meeting-id predicate first and the literal visibility predicate second.
racesApplyFilter(query, filter) ==
    IF filter.nil THEN [query |-> query, args |-> <<>>]
    ELSE LET some    == Len(filter.MeetingIds) > 0
             inList  == IF some
                        THEN <<MeetingIdIn \o Repeat(<<"?", ",">>, Len(filter.MeetingIds) - 1)
                                 \o <<"?", ")">>>>
                        ELSE <<>>
             clauses == IF filter.ShowVisibleOnly THEN Append(inList, VisibleIsOne) ELSE inList
             args    == IF some THEN AppendIds(<<>>, filter.MeetingIds) ELSE <<>>
         IN  [query |-> IF Len(clauses) # 0
                        THEN query \o WhereKw \o Join(clauses, AndKw)
                        ELSE query,
              args  |-> args]

-----------------------------------------------------------------------------
(* The applyFilter call under study.                                       *)

Groups == 1..MaxGroup

RECURSIVE SeqsUpTo(_, _)
SeqsUpTo(S, n) ==
    IF n = 0 THEN {<<>>}
    ELSE LET shorter == SeqsUpTo(S, n - 1)
         IN  shorter \cup {Append(s, x) : s \in {t \in shorter : Len(t) = n - 1}, x \in S}

EventFilters(n) ==
    {NilEventFilter} \cup {[nil |-> FALSE, SportIds |-> ids] : ids \in SeqsUpTo(Groups, n)}

RaceFilters(n) ==
    {NilRaceFilter} \cup {[nil |-> FALSE, MeetingIds |-> ids, ShowVisibleOnly |-> v] :
                    ids \in SeqsUpTo(Groups, n), v \in BOOLEAN}

FltInit ==
    \E s \in {"sports", "racing"}, q \in {<<>>, EventsListQuery, RacesListQuery} :
        \E f \in (IF s = "sports" THEN EventFilters(MaxFilterLen) ELSE RaceFilters(MaxFilterLen)) :
            flt = [pc |-> "start", svc |-> s, query |-> q, filter |-> f,
                   out |-> [query |-> <<>>, args |-> <<>>]]

ApplyFilterEvents ==
    /\ flt.pc = "start"
    /\ flt.svc = "sports"
    /\ flt' = [flt EXCEPT !.pc = "done", !.out = applyFilter(flt.query, flt.filter)]

ApplyFilterRaces ==
    /\ flt.pc = "start"
    /\ flt.svc = "racing"
    /\ flt' = [flt EXCEPT !.pc = "done", !.out = racesApplyFilter(flt.query, flt.filter)]


-----------------------------------------------------------------------------
(* The store: the tables, and SQLite executing a composed query.           *)

Ids == 1..MaxId
Ticks == 0..MaxNow

\* A stored advertised_start_time: a time at tick t; NULL, which rows.Scan
\* cannot store into a time.Time; or a time past year 9999, which scans and
\* which ptypes.TimestampProto rejects.
TimeAt(t) == [kind |-> "time", t |-> t]
NullTime == [kind |-> "null", t |-> 0]
FarTime == [kind |-> "far", t |-> 0]

\* The rows of events (name and the stored status, which List and Get carry
\* through unread, are left out) and of races (name and number left out).
EventRow == [id : Ids, sport_id : Groups, adv : {TimeAt(t) : t \in Ticks} \cup {NullTime, FarTime}]
RaceRow == [id : Ids, meeting_id : Groups, visible : {0, 1}, adv : {TimeAt(t) : t \in Ticks}]

\* id is INTEGER PRIMARY KEY: a table holds at most one row per id.
Tables(Row) ==
    UNION {{{f[i] : i \in S} : f \in {g \in [S -> Row] : \A i \in S : g[i].id = i}} :
             S \in SUBSET Ids}

IsPrefix(p, s) ==
    Len(p) <= Len(s) /\ SubSeq(s, 1, Len(p)) = p

\* SQLite's datetime(): the text YYYY-MM-DD HH:MM:SS, whole seconds, whose
\* order as text is the order of the seconds. (The localtime modifier shifts
\* both sides of the comparison by the zone's offset.)
DateTime(t) ==
    t \div TicksPerSecond

\* The computed column of racesList:
\* CASE WHEN datetime(advertised_start_time, 'localtime') >= datetime('now','localtime')
\* THEN 0 ELSE 1 END status
RaceStatus(adv, clock) ==
    IF adv.kind = "time" /\ DateTime(adv.t) >= DateTime(clock) THEN 0 ELSE 1

\* What the SELECT list of each template yields for a stored row.
EventsSelected(T) ==
    {[id |-> r.id, grp |-> r.sport_id, visible |-> 1, adv |-> r.adv, status |-> 0] : r \in T}

RacesSelected(T, clock) ==
    {[id |-> r.id, grp |-> r.meeting_id, visible |-> r.visible, adv |-> r.adv,
      status |-> RaceStatus(r.adv, clock)] : r \in T}

IdCol == <<"i","d">>
SportIdCol == <<"s","p","o","r","t","_","i","d">>
MeetingIdCol == <<"m","e","e","t","i","n","g","_","i","d">>
StatusCol == <<"s","t","a","t","u","s">>
VisibleCol == <<"v","i","s","i","b","l","e">>
DescKw == <<" ","d","e","s","c">>
IdIsParam == <<"i","d"," ","="," ","?">>

\* The columns a query on each table can name.
Columns(s) ==
    IF s = "sports" THEN {IdCol, SportIdCol, AdvertisedStartTime}
    ELSE {IdCol, MeetingIdCol, VisibleCol, AdvertisedStartTime, StatusCol}

GroupCol(s) ==
    IF s = "sports" THEN SportIdCol ELSE MeetingIdCol

\* The WHERE clauses SQLite is given here, as SQL reads them: none; an IN
\* list of n placeholders on the grouping column; visible = 1; both; id = ?.
WhereForms(s) ==
    {[kind |-> "none", n |-> 0], [kind |-> "id", n |-> 1]}
        \cup {[kind |-> "in", n |-> n] : n \in 1..(MaxListIds + 1)}
        \cup (IF s = "sports" THEN {}
              ELSE {[kind |-> "visible", n |-> 0]}
                     \cup {[kind |-> "in_visible", n |-> n] : n \in 1..(MaxListIds + 1)})

RECURSIVE Placeholders(_)
Placeholders(n) ==
    IF n = 1 THEN <<"?">> ELSE <<"?", ",">> \o Placeholders(n - 1)

InList(s, n) ==
    GroupCol(s) \o <<" ","I","N"," ","(">> \o Placeholders(n) \o <<")">>

WhereText(s, form) ==
    CASE form.kind = "none"       -> <<>>
      [] form.kind = "id"         -> WhereKw \o IdIsParam
      [] form.kind = "in"         -> WhereKw \o InList(s, form.n)
      [] form.kind = "visible"    -> WhereKw \o VisibleIsOne
      [] form.kind = "in_visible" -> WhereKw \o InList(s, form.n) \o AndKw \o VisibleIsOne

Base(s) ==
    IF s = "sports" THEN EventsListQuery ELSE RacesListQuery

\* The text after the WHERE clause: nothing, or an ORDER BY clause.
TailAfter(s, form, query) ==
    SubSeq(query, Len(Base(s) \o WhereText(s, form)) + 1, Len(query))

ParsedForms(s, query) ==
    {form \in WhereForms(s) :
        /\ IsPrefix(Base(s) \o WhereText(s, form), query)
        /\ LET tail == TailAfter(s, form, query)
           IN  tail = <<>> \/ IsPrefix(OrderByKw, tail)}

\* One ordering term: a column, or a column and desc.
OrderTerm(s, term) ==
    IF term \in Columns(s) THEN [ok |-> TRUE, col |-> term, desc |-> FALSE]
    ELSE IF Len(term) > Len(DescKw)
            /\ SubSeq(term, Len(term) - Len(DescKw) + 1, Len(term)) = DescKw
            /\ SubSeq(term, 1, Len(term) - Len(DescKw)) \in Columns(s)
    THEN [ok |-> TRUE, col |-> SubSeq(term, 1, Len(term) - Len(DescKw)), desc |-> TRUE]
    ELSE [ok |-> FALSE, col |-> <<>>, desc |-> FALSE]

\* The ordering terms of a query's tail; none when there is no ORDER BY.
OrderTerms(s, tail) ==
    IF tail = <<>> THEN <<>>
    ELSE LET texts == Split(SubSeq(tail, Len(OrderByKw) + 1, Len(tail)), ",")
         IN  [i \in 1..Len(texts) |-> OrderTerm(s, TrimSpace(texts[i]))]

\* A row's value in a column, as SQLite orders it: NULL first.
ColValue(row, col) ==
    CASE col = IdCol               -> row.id
      [] col = SportIdCol          -> row.grp
      [] col = MeetingIdCol        -> row.grp
      [] col = VisibleCol          -> row.visible
      [] col = StatusCol           -> row.status
      [] col = AdvertisedStartTime ->
            (CASE row.adv.kind = "null" -> -1
               [] row.adv.kind = "time" -> row.adv.t
               [] row.adv.kind = "far"  -> MaxNow + 1)

\* Whether row a sorts strictly before row b under the terms from k on.
RECURSIVE Before(_, _, _, _)
Before(a, b, terms, k) ==
    IF k > Len(terms) THEN FALSE
    ELSE LET x == ColValue(a, terms[k].col)
             y == ColValue(b, terms[k].col)
         IN  IF x = y THEN Before(a, b, terms, k + 1)
             ELSE IF terms[k].desc THEN x > y ELSE x < y

\* The orders in which SQLite may return the rows: every arrangement in
\* which no row comes after one it sorts strictly before.
Arrangements(rows, terms) ==
    {q \in [1..Cardinality(rows) -> rows] :
        /\ \A i, j \in 1..Cardinality(rows) : i # j => q[i] # q[j]
        /\ \A i, j \in 1..Cardinality(rows) : i < j => ~Before(q[j], q[i], terms, 1)}

\* Whether a selected row satisfies the WHERE clause under the bound args.
Satisfies(row, form, args) ==
    CASE form.kind = "none"       -> TRUE
      [] form.kind = "id"         -> row.id = args[1]
      [] form.kind = "in"         -> \E i \in 1..form.n : row.grp = args[i]
      [] form.kind = "visible"    -> row.visible = 1
      [] form.kind = "in_visible" -> (\E i \in 1..form.n : row.grp = args[i]) /\ row.visible = 1

\* db.Query(query, args...): an error when SQLite cannot read the text, names
\* an unknown column or is bound another number of arguments than the text
\* has placeholders; otherwise the possible row sequences.
DbQuery(s, selected, query, args) ==
    LET forms == ParsedForms(s, query)
    IN  IF forms = {} THEN [err |-> "QueryErr", results |-> {}]
        ELSE LET form  == CHOOSE f \in forms : TRUE
                 terms == OrderTerms(s, TailAfter(s, form, query))
             IN  IF form.n # Len(args) \/ \E i \in 1..Len(terms) : ~terms[i].ok
                 THEN [err |-> "QueryErr", results |-> {}]
                 ELSE [err |-> "nil",
                       results |-> Arrangements({r \in selected : Satisfies(r, form, args)}, terms)]


-----------------------------------------------------------------------------
(* The row mapper, List and Get.                                           *)

\* rows.Scan(&event.Id, &event.SportId, &event.Name, &advertisedStart, &event.Status)
RowsScan(row) ==
    IF row.adv.kind = "null" THEN "ScanErr" ELSE "nil"

\* ptypes.TimestampProto(advertisedStart): seconds and the rest of the
\* second, or an error for a time outside years 1 to 9999.
TimestampProto(adv) ==
    IF adv.kind = "far" THEN [err |-> "TimestampErr", seconds |-> 0, nanos |-> 0]
    ELSE [err |-> "nil", seconds |-> adv.t \div TicksPerSecond, nanos |-> adv.t % TicksPerSecond]

\* A slip: the row that fails is passed over, with no error.
ScanFailureSwallowed(e) ==
    [events |-> <<>>, err |-> "nil"]

\* What scanEvents returns when a row fails to scan or to convert.
ScanFailure(e) ==
    [events |-> <<>>, err |-> e]

\* The loop of scanEvents over the rows of the result.
RECURSIVE ScanLoop(_, _)
ScanLoop(rows, evs) ==
    IF rows = <<>> THEN [events |-> evs, err |-> "nil"]
    ELSE LET row     == Head(rows)
             scanErr == RowsScan(row)
             ts      == TimestampProto(row.adv)
         IN  IF scanErr # "nil"
             THEN (IF scanErr = "ErrNoRows" THEN [events |-> <<>>, err |-> "nil"]
                   ELSE ScanFailure(scanErr))
             ELSE IF ts.err # "nil" THEN ScanFailure(ts.err)
             ELSE ScanLoop(Tail(rows),
                           Append(evs,
                                  [Id |-> row.id, SportId |-> row.grp,
                                   AdvertisedStartTime |-> [seconds |-> ts.seconds,
                                                            nanos |-> ts.nanos]]))

scanEvents(rows) ==
    ScanLoop(rows, <<>>)

\* racesRepo.scanRaces, whose source file is not among the files under
\* study: the row mapper of the description, the computed status read too.
RECURSIVE scanRaces(_)
scanRaces(rows) ==
    IF rows = <<>> THEN [races |-> <<>>, err |-> "nil"]
    ELSE LET row  == Head(rows)
             ts   == TimestampProto(row.adv)
             rest == scanRaces(Tail(rows))
         IN  IF RowsScan(row) # "nil" THEN [races |-> <<>>, err |-> RowsScan(row)]
             ELSE IF ts.err # "nil" THEN [races |-> <<>>, err |-> ts.err]
             ELSE IF rest.err # "nil" THEN rest
             ELSE [races |-> <<[Id |-> row.id, MeetingId |-> row.grp,
                                Visible |-> row.visible = 1,
                                AdvertisedStartTime |-> [seconds |-> ts.seconds,
                                                         nanos |-> ts.nanos],
                                Status |-> row.status]>> \o rest.races,
                   err |-> "nil"]

\* The order-by strings List is called with.
EventOrderBys ==
    {<<>>, IdCol, SportIdCol \o DescKw}

RaceOrderBys ==
    {<<>>, IdCol, StatusCol}

NoCall ==
    [op |-> "none", queries |-> 0, dbErr |-> "nil", err |-> "nil", records |-> <<>>]

\* A slip: a query that failed is issued a second time.
QueryRetried(up, res) ==
    [err |-> IF up THEN res.err ELSE "StoreErr",
     results |-> IF up THEN res.results ELSE {},
     queries |-> IF up /\ res.err = "nil" THEN 1 ELSE 2]

\* rows, err := r.db.Query(query, args...): the one query of a call. The
\* store may be out of reach (up = FALSE) and then answers with its error;
\* otherwise the answer is the engine's (res).
Query(up, res) ==
    [err |-> IF up THEN res.err ELSE "StoreErr",
     results |-> IF up THEN res.results ELSE {},
     queries |-> 1]

\* The arguments of Get's query: args = append(args, id).
GetArgs(id) ==
    <<id>>

\* What Get returns from what scanEvents returned.
GetResult(evs, scanErr) ==
    IF Len(evs) = 0 THEN [event |-> <<>>, err |-> "NotFound"]
    ELSE [event |-> <<evs[1]>>, err |-> scanErr]

\* sportsRepo.List. The store may fail the query (up = FALSE).
List(filter, orderBy, up) ==
    LET f == applyFilter(EventsListQuery, filter)
        query == applyOrder(f.query, orderBy)
        res == Query(up, DbQuery("sports", EventsSelected(events), query, f.args))
        head == [op |-> "List", filter |-> filter, orderBy |-> orderBy, at |-> now,
                 queries |-> res.queries, dbErr |-> res.err]
    IN  /\ svc = "sports"
        /\ call.op = "none"
        /\ IF res.err # "nil"
           THEN call' = head @@ [records |-> <<>>, err |-> res.err]
           ELSE \E rows \in res.results :
                    call' = head @@ [records |-> scanEvents(rows).events,
                                     err |-> scanEvents(rows).err]
        /\ UNCHANGED <<svc, events, races, now>>

\* sportsRepo.Get.
Get(id, up) ==
    LET query == EventsListQuery \o WhereKw \o IdIsParam
        res == Query(up, DbQuery("sports", EventsSelected(events), query, GetArgs(id)))
        head == [op |-> "Get", id |-> id, at |-> now, queries |-> res.queries, dbErr |-> res.err]
    IN  /\ svc = "sports"
        /\ call.op = "none"
        /\ IF res.err # "nil"
           THEN call' = head @@ [records |-> <<>>, err |-> res.err]
           ELSE \E rows \in res.results :
                    LET scanned == scanEvents(rows)
                        got == GetResult(scanned.events, scanned.err)
                    IN  call' = head @@ [records |-> got.event, err |-> got.err]
        /\ UNCHANGED <<svc, events, races, now>>

\* racesRepo.List, modelled from the description: the same pipeline on the
\* races template. The query reads the clock when it executes; the clock
\* may have advanced to any later tick by then.
ListRaces(filter, orderBy, up, clock) ==
    LET f == racesApplyFilter(RacesListQuery, filter)
        query == applyOrder(f.query, orderBy)
        res == Query(up, DbQuery("racing", RacesSelected(races, clock), query, f.args))
        head == [op |-> "ListRaces", filter |-> filter, orderBy |-> orderBy, at |-> clock,
                 queries |-> res.queries, dbErr |-> res.err]
    IN  /\ svc = "racing"
        /\ call.op = "none"
        /\ clock >= now
        /\ now' = clock
        /\ IF res.err # "nil"
           THEN call' = head @@ [records |-> <<>>, err |-> res.err]
           ELSE \E rows \in res.results :
                    call' = head @@ [records |-> scanRaces(rows).races,
                                     err |-> scanRaces(rows).err]
        /\ UNCHANGED <<svc, events, races>>

\* The service hands what the repository returned to its caller
\* (ListEvents, GetEvent), and the next request can be served.
Deliver ==
    /\ call.op # "none"
    /\ call' = NoCall
    /\ UNCHANGED <<svc, events, races, now>>

RepoInit ==
    /\ svc \in {"sports", "racing"}
    /\ events \in (IF svc = "sports" THEN Tables(EventRow) ELSE {{}})
    /\ races \in (IF svc = "racing" THEN Tables(RaceRow) ELSE {{}})
    /\ now = 0
    /\ call = NoCall

ListAction ==
    \E filter \in EventFilters(MaxListIds), orderBy \in EventOrderBys, up \in BOOLEAN :
        List(filter, orderBy, up)

GetAction ==
    \E id \in Ids, up \in BOOLEAN : Get(id, up)

ListRacesAction ==
    \E filter \in RaceFilters(MaxListIds), orderBy \in RaceOrderBys, up \in BOOLEAN,
       clock \in Ticks :
        ListRaces(filter, orderBy, up, clock)

-----------------------------------------------------------------------------
(* Init: sync.Once around seed.                                            *)

Callers == 1..NumCallers

\* for i := 1; i <= 100; i++
SeedRows == 100

\* A slip: a guard that does not look at done again under the mutex.
OnceMustRunUnchecked(d) ==
    TRUE

\* sync.Once.doSlow, under the mutex: if o.done.Load() == 0 { ... f() }
OnceMustRun(d) ==
    d = 0

\* Init is called: var err error.
CallInit(p) ==
    /\ pc[p] = "idle"
    /\ calls[p] < MaxCalls
    /\ pc' = [pc EXCEPT ![p] = "do"]
    /\ err' = [err EXCEPT ![p] = "nil"]
    /\ UNCHANGED <<calls, ret, done, mu, seed>>

\* r.init.Do: the fast path, if o.done.Load() == 0 { o.doSlow(f) }.
OnceFast(p) ==
    /\ pc[p] = "do"
    /\ pc' = [pc EXCEPT ![p] = IF done = 0 THEN "lock" ELSE "return"]
    /\ UNCHANGED <<calls, ret, err, done, mu, seed>>

\* doSlow: o.m.Lock().
OnceLock(p) ==
    /\ pc[p] = "lock"
    /\ mu = 0
    /\ mu' = p
    /\ pc' = [pc EXCEPT ![p] = "locked"]
    /\ seed' = [seed EXCEPT !.first = IF seed.first = 0 THEN p ELSE seed.first]
    /\ UNCHANGED <<calls, ret, err, done>>

\* doSlow: the check under the mutex; f starts when done is still 0.
OnceSlow(p) ==
    /\ pc[p] = "locked"
    /\ IF OnceMustRun(done)
       THEN /\ pc' = [pc EXCEPT ![p] = "create"]
            /\ seed' = [seed EXCEPT !.runs = seed.runs + 1, !.by = p, !.i = 0,
                                    !.err = "nil", !.failed = FALSE]
       ELSE /\ pc' = [pc EXCEPT ![p] = "unlock"]
            /\ UNCHANGED seed
    /\ UNCHANGED <<calls, ret, err, done, mu>>

\* seed: the CREATE TABLE statement; err is what Prepare, then Exec, returned.
SeedCreate(p, ok) ==
    /\ pc[p] = "create"
    /\ pc' = [pc EXCEPT ![p] = "insert"]
    /\ seed' = [seed EXCEPT !.i = 1, !.err = IF ok THEN "nil" ELSE "CreateErr",
                            !.failed = ~ok]
    /\ UNCHANGED <<calls, ret, err, done, mu>>

\* seed: one turn of the loop; err is assigned what this turn's Prepare,
\* then Exec, returned.
SeedInsert(p, ok) ==
    /\ pc[p] = "insert"
    /\ seed.i <= SeedRows
    /\ seed' = [seed EXCEPT !.i = seed.i + 1, !.err = IF ok THEN "nil" ELSE "InsertErr",
                            !.failed = seed.failed \/ ~ok]
    /\ UNCHANGED <<pc, calls, ret, err, done, mu>>

\* seed: return err; the closure assigns it to Init's err.
SeedReturn(p) ==
    /\ pc[p] = "insert"
    /\ seed.i > SeedRows
    /\ err' = [err EXCEPT ![p] = seed.err]
    /\ seed' = [seed EXCEPT !.finished = seed.finished + 1]
    /\ pc' = [pc EXCEPT ![p] = "store"]
    /\ UNCHANGED <<calls, ret, done, mu>>

\* doSlow: defer o.done.Store(1).
OnceStore(p) ==
    /\ pc[p] = "store"
    /\ done' = 1
    /\ pc' = [pc EXCEPT ![p] = "unlock"]
    /\ UNCHANGED <<calls, ret, err, mu, seed>>

\* doSlow: defer o.m.Unlock().
OnceUnlock(p) ==
    /\ pc[p] = "unlock"
    /\ mu' = 0
    /\ pc' = [pc EXCEPT ![p] = "return"]
    /\ UNCHANGED <<calls, ret, err, done, seed>>

\* Init: return err.
ReturnInit(p) ==
    /\ pc[p] = "return"
    /\ ret' = [ret EXCEPT ![p] = err[p]]
    /\ calls' = [calls EXCEPT ![p] = calls[p] + 1]
    /\ pc' = [pc EXCEPT ![p] = "idle"]
    /\ UNCHANGED <<err, done, mu, seed>>

\* NewSportsRepo: the zero sync.Once; no caller is in Init.
OnceInit ==
    /\ pc = [p \in Callers |-> "idle"]
    /\ calls = [p \in Callers |-> 0]
    /\ ret = [p \in Callers |-> "nil"]
    /\ err = [p \in Callers |-> "nil"]
    /\ done = 0
    /\ mu = 0
    /\ seed = [runs |-> 0, finished |-> 0, by |-> 0, first |-> 0, i |-> 0, err |-> "nil",
               failed |-> FALSE]

-----------------------------------------------------------------------------
(* The specifications.                                                     *)

OrdIdle == ord = [pc |-> "idle"]
FltIdle == flt = [pc |-> "idle"]
RepoIdle ==
    /\ svc = "none"
    /\ events = {}
    /\ races = {}
    /\ now = 0
    /\ call = NoCall
InitIdle ==
    /\ pc = <<>>
    /\ calls = <<>>
    /\ ret = <<>>
    /\ err = <<>>
    /\ done = 0
    /\ mu = 0
    /\ seed = [runs |-> 0]

\* The repository of either service over its store.
Init ==
    RepoInit /\ OrdIdle /\ FltIdle /\ InitIdle

Next ==
    \/ ListAction /\ UNCHANGED <<ordVars, fltVars, initVars>>
    \/ GetAction /\ UNCHANGED <<ordVars, fltVars, initVars>>
    \/ ListRacesAction /\ UNCHANGED <<ordVars, fltVars, initVars>>
    \/ Deliver /\ UNCHANGED <<ordVars, fltVars, initVars>>

Spec == Init /\ [][Next]_vars

\* applyOrder on every order-by string up to MaxOrderLen.
InitOrder ==
    OrdInit /\ FltIdle /\ RepoIdle /\ InitIdle

NextOrder ==
    ApplyOrder /\ UNCHANGED <<fltVars, repoVars, initVars>>

SpecOrder == InitOrder /\ [][NextOrder]_vars

\* applyFilter of either service on every filter up to MaxFilterLen ids.
InitFilter ==
    FltInit /\ OrdIdle /\ RepoIdle /\ InitIdle

NextFilter ==
    \/ ApplyFilterEvents /\ UNCHANGED <<ordVars, repoVars, initVars>>
    \/ ApplyFilterRaces /\ UNCHANGED <<ordVars, repoVars, initVars>>

SpecFilter == InitFilter /\ [][NextFilter]_vars

\* Callers of Init on one repository, concurrently and in turn.
InitInit ==
    OnceInit /\ OrdIdle /\ FltIdle /\ RepoIdle

NextInit ==
    \E p \in Callers :
        \/ CallInit(p) /\ UNCHANGED <<ordVars, fltVars, repoVars>>
        \/ OnceFast(p) /\ UNCHANGED <<ordVars, fltVars, repoVars>>
        \/ OnceLock(p) /\ UNCHANGED <<ordVars, fltVars, repoVars>>
        \/ OnceSlow(p) /\ UNCHANGED <<ordVars, fltVars, repoVars>>
        \/ (\E ok \in BOOLEAN : SeedCreate(p, ok)) /\ UNCHANGED <<ordVars, fltVars, repoVars>>
        \/ (\E ok \in BOOLEAN : SeedInsert(p, ok)) /\ UNCHANGED <<ordVars, fltVars, repoVars>>
        \/ SeedReturn(p) /\ UNCHANGED <<ordVars, fltVars, repoVars>>
        \/ OnceStore(p) /\ UNCHANGED <<ordVars, fltVars, repoVars>>
        \/ OnceUnlock(p) /\ UNCHANGED <<ordVars, fltVars, repoVars>>
        \/ ReturnInit(p) /\ UNCHANGED <<ordVars, fltVars, repoVars>>

SpecInit == InitInit /\ [][NextInit]_vars

-----------------------------------------------------------------------------
(* Properties of applyOrder (SpecOrder).                                   *)

\* " ORDER BY advertised_start_time"
DefaultOrderClause ==
    <<" ","O","R","D","E","R"," ","B","Y"," ","a","d","v","e","r","t","i","s","e","d","_",
      "s","t","a","r","t","_","t","i","m","e">>

Blank(c) == c = " " \/ c = "\t"

OnlyBlanksAndCommas(s) ==
    \A i \in 1..Len(s) : Blank(s[i]) \/ s[i] = ","

\* The comma-separated segments of s, read off the positions of its commas.
Cuts(s) ==
    {0, Len(s) + 1} \cup {i \in 1..Len(s) : s[i] = ","}

RECURSIVE Ascending(_)
Ascending(S) ==
    IF S = {} THEN <<>>
    ELSE LET m == CHOOSE x \in S : \A y \in S : x <= y
         IN  <<m>> \o Ascending(S \ {m})

Segments(s) ==
    LET cut == Ascending(Cuts(s))
    IN  [k \in 1..(Len(cut) - 1) |-> SubSeq(s, cut[k] + 1, cut[k + 1] - 1)]

\* s without its leading and trailing blanks, read off the positions of
\* its first and last character that is not blank.
Stripped(s) ==
    LET solid == {i \in 1..Len(s) : ~Blank(s[i])}
    IN  IF solid = {} THEN <<>>
        ELSE SubSeq(s, CHOOSE i \in solid : \A j \in solid : i <= j,
                       CHOOSE i \in solid : \A j \in solid : i >= j)

\* s with every maximal run of k spaces made a run of (k + 1) \div 2 spaces:
\* what replacing the pairs of spaces, found from the left, leaves of it.
RunStart(s, i) == s[i] = " " /\ (i = 1 \/ s[i - 1] # " ")
RunOf(s, i) == CHOOSE k \in 1..Len(s) : /\ \A j \in i..(i + k - 1) : s[j] = " "
                                        /\ (i + k > Len(s) \/ s[i + k] # " ")
RECURSIVE HalvedFrom(_, _)
HalvedFrom(s, i) ==
    IF i > Len(s) THEN <<>>
    ELSE IF RunStart(s, i)
    THEN [j \in 1..((RunOf(s, i) + 1) \div 2) |-> " "] \o HalvedFrom(s, i + RunOf(s, i))
    ELSE <<s[i]>> \o HalvedFrom(s, i + 1)

SpacePairsHalved(s) == HalvedFrom(s, 1)

NotEmpty(t) == t # <<>>

\* The tokens of orderBy that are not empty once trimmed, trimmed, in order.
TrimmedTokens(s) ==
    SelectSeq([k \in 1..Len(Segments(s)) |-> Stripped(Segments(s)[k])], NotEmpty)

\* The same, each token having its pairs of spaces replaced before it is trimmed.
CollapsedTokens(s) ==
    SelectSeq([k \in 1..Len(Segments(s)) |-> Stripped(SpacePairsHalved(Segments(s)[k]))],
              NotEmpty)

\* C7: for every orderBy made of white space and commas only (empty, blank,
\* ",", "  ,  ", consecutive commas), applyOrder appends exactly
\* " ORDER BY advertised_start_time" to the query.
C7_BlankOrderByGivesDefault ==
    (ord.pc = "done" /\ OnlyBlanksAndCommas(ord.orderBy))
        => ord.out = ord.query \o DefaultOrderClause

\* applyOrder has answered " , ,": blanks and commas, the first test passed.
C7_Witness ==
    /\ ord.pc = "done"
    /\ ord.orderBy = <<" ", ",", "\t", ",">>
    /\ ord.out = ord.query \o DefaultOrderClause

\* C8 as claimed: for every orderBy with a token that is not empty once
\* trimmed, applyOrder appends " ORDER BY " and exactly the non-empty trimmed
\* tokens, in input order, joined with ", ".
C8_TrimmedTokensAsClaimed ==
    (ord.pc = "done" /\ TrimmedTokens(ord.orderBy) # <<>>)
        => ord.out = ord.query \o <<" ","O","R","D","E","R"," ","B","Y"," ">>
                         \o Join(TrimmedTokens(ord.orderBy), <<",", " ">>)

\* C8 as amended: for every orderBy with a token that is not empty once
\* trimmed, applyOrder appends " ORDER BY " and exactly the surviving tokens,
\* in input order, joined with ", ", where a token survives when it is not
\* empty once trimmed and is emitted with each pair of consecutive spaces
\* (found from the left) replaced by one space and then trimmed: no surviving
\* token is reordered, duplicated or lost, and the empty ones are dropped.
C8_TokensKeptInOrder ==
    (ord.pc = "done" /\ TrimmedTokens(ord.orderBy) # <<>>)
        => /\ ord.out = ord.query \o <<" ","O","R","D","E","R"," ","B","Y"," ">>
                            \o Join(CollapsedTokens(ord.orderBy), <<",", " ">>)
           /\ Len(CollapsedTokens(ord.orderBy)) = Len(TrimmedTokens(ord.orderBy))

\* applyOrder has answered "b,, a": the empty segment is dropped, b stays
\* before a.
C8_Witness ==
    /\ ord.pc = "done"
    /\ ord.orderBy = <<"b", ",", ",", " ", "a">>
    /\ ord.out = ord.query \o <<" ","O","R","D","E","R"," ","B","Y"," ","b",",", " ","a">>

\* The tokens of the ORDER BY list that applyOrder appended to the query,
\* read off the output: the list is cut at its commas, and the space that
\* follows each comma belongs to the separator.
EmittedTokens(query, out) ==
    LET list == SubSeq(out, Len(query) + Len(OrderByKw) + 1, Len(out))
        segs == Segments(list)
    IN  [k \in 1..Len(segs) |-> IF k = 1 THEN segs[k] ELSE Tail(segs[k])]

NoBlankAtEnds(t) ==
    t # <<>> => (~Blank(t[1]) /\ ~Blank(t[Len(t)]))

NoSpaceRun(t) ==
    \A i \in 1..(Len(t) - 1) : ~(t[i] = " " /\ t[i + 1] = " ")

\* C13: for every orderBy string, every token that applyOrder emits in the
\* ORDER BY list has no leading or trailing white space and contains no run
\* of two or more consecutive spaces, whatever the length of the space runs
\* in the input.
C13_EmittedTokensNormalised ==
    ord.pc = "done"
        => \A k \in 1..Len(EmittedTokens(ord.query, ord.out)) :
               /\ NoBlankAtEnds(EmittedTokens(ord.query, ord.out)[k])
               /\ NoSpaceRun(EmittedTokens(ord.query, ord.out)[k])

\* What the code does: every emitted token is trimmed at both ends, and a
\* run of spaces inside a token is emitted at half its length, rounded up.
EmittedTokensTrimmedAndHalved ==
    ord.pc = "done"
        => /\ \A k \in 1..Len(EmittedTokens(ord.query, ord.out)) :
                  NoBlankAtEnds(EmittedTokens(ord.query, ord.out)[k])
           /\ TrimmedTokens(ord.orderBy) # <<>>
                  => EmittedTokens(ord.query, ord.out) = CollapsedTokens(ord.orderBy)

-----------------------------------------------------------------------------
(* Properties of applyFilter (SpecFilter).                                 *)

\* "?,?,...,?" with n question marks.
QuestionMarks(n) ==
    [i \in 1..(2 * n - 1) |-> IF i % 2 = 1 THEN "?" ELSE ","]

Occurrences(s, c) ==
    Cardinality({i \in 1..Len(s) : s[i] = c})

\* C4: for every filter whose sport-id list has n > 0 ids, applyFilter
\* appends to the query the single predicate " WHERE sport_id IN (?,...,?)"
\* with exactly n placeholders, and returns exactly n bound parameters, the
\* i-th being the i-th id of the list (duplicates and order kept).
C4_InListMatchesIds ==
    (flt.pc = "done" /\ flt.svc = "sports" /\ ~flt.filter.nil /\ flt.filter.SportIds # <<>>)
        => LET n == Len(flt.filter.SportIds)
               added == SubSeq(flt.out.query, Len(flt.query) + 1, Len(flt.out.query))
           IN  /\ flt.out.query = flt.query
                     \o <<" ","W","H","E","R","E"," ","s","p","o","r","t","_","i","d"," ","I","N"," ","(">>
                     \o QuestionMarks(n) \o <<")">>
               /\ Occurrences(added, "?") = n
               /\ Len(flt.out.args) = n
               /\ \A i \in 1..n : flt.out.args[i] = flt.filter.SportIds[i]

\* applyFilter has answered the ids 2, 1, 2: a duplicate, not in order.
C4_Witness ==
    /\ flt.pc = "done"
    /\ flt.svc = "sports"
    /\ ~flt.filter.nil
    /\ flt.filter.SportIds = <<2, 1, 2>>
    /\ flt.out.args = <<2, 1, 2>>
    /\ flt.query = EventsListQuery

\* Whether a filter is absent, or present with every field at its default.
AbsentOrEmpty(s, filter) ==
    \/ filter.nil
    \/ s = "sports" /\ filter.SportIds = <<>>
    \/ s = "racing" /\ filter.MeetingIds = <<>> /\ ~filter.ShowVisibleOnly

\* C5: applyFilter with a filter whose fields are all default (no ids, the
\* visibility flag false) returns what it returns for a nil filter: the
\* query text unchanged, no WHERE clause, and an empty parameter list.
C5_EmptyFilterIsAbsentFilter ==
    (flt.pc = "done" /\ AbsentOrEmpty(flt.svc, flt.filter))
        => /\ flt.out.query = flt.query
           /\ flt.out.args = <<>>
           /\ Len(flt.out.query) = Len(flt.query)

\* applyFilter has answered an empty, non-nil events filter.
C5_Witness ==
    /\ flt.pc = "done"
    /\ flt.svc = "sports"
    /\ ~flt.filter.nil
    /\ flt.filter.SportIds = <<>>
    /\ flt.query = EventsListQuery
    /\ flt.out.query = EventsListQuery

\* C6: for races, ShowVisibleOnly adds the literal predicate visible = 1 and
\* no bound parameter: with n > 0 meeting ids the clause is
\* " WHERE meeting_id IN (?,...,?) AND visible = 1", the IN predicate first
\* and the parameters the ids; with no ids it is " WHERE visible = 1" and the
\* parameter list is empty.
C6_VisibleOnlyIsLiteral ==
    (flt.pc = "done" /\ flt.svc = "racing" /\ ~flt.filter.nil /\ flt.filter.ShowVisibleOnly)
        => IF flt.filter.MeetingIds # <<>>
           THEN /\ flt.out.query = flt.query
                      \o <<" ","W","H","E","R","E"," ","m","e","e","t","i","n","g","_","i","d",
                           " ","I","N"," ","(">>
                      \o QuestionMarks(Len(flt.filter.MeetingIds))
                      \o <<")"," ","A","N","D"," ","v","i","s","i","b","l","e"," ","="," ","1">>
                /\ flt.out.args = flt.filter.MeetingIds
           ELSE /\ flt.out.query = flt.query
                      \o <<" ","W","H","E","R","E"," ","v","i","s","i","b","l","e"," ","="," ","1">>
                /\ flt.out.args = <<>>

\* applyFilter has answered a races filter with two meeting ids and
\* ShowVisibleOnly.
C6_Witness ==
    /\ flt.pc = "done"
    /\ flt.svc = "racing"
    /\ ~flt.filter.nil
    /\ flt.filter.ShowVisibleOnly
    /\ flt.filter.MeetingIds = <<1, 2>>
    /\ flt.out.args = <<1, 2>>
    /\ flt.query = RacesListQuery

-----------------------------------------------------------------------------
(* Properties of List and Get (Spec).                                      *)

Range(q) == {q[i] : i \in 1..Len(q)}

\* The store executed the call's query: it did not fail.
Executed == call.err # "StoreErr"

\* Whether rows.Scan and the timestamp conversion succeed on a stored row.
Readable(r) == r.adv.kind = "time"

\* The tick a wire timestamp stands for.
TickOf(ts) == ts.seconds * TicksPerSecond + ts.nanos

\* Whether an event record is the stored row r.
IsEvent(rec, r) ==
    /\ rec.Id = r.id
    /\ rec.SportId = r.sport_id
    /\ r.adv.kind = "time"
    /\ TickOf(rec.AdvertisedStartTime) = r.adv.t

IsRace(rec, r) ==
    /\ rec.Id = r.id
    /\ rec.MeetingId = r.meeting_id
    /\ rec.Visible = (r.visible = 1)
    /\ r.adv.kind = "time"
    /\ TickOf(rec.AdvertisedStartTime) = r.adv.t

\* The stored rows a filter asks for.
EventsAsked(filter) ==
    {r \in events : filter.nil \/ filter.SportIds = <<>> \/ r.sport_id \in Range(filter.SportIds)}

RacesAsked(filter) ==
    {r \in races :
        \/ filter.nil
        \/ /\ filter.MeetingIds = <<>> \/ r.meeting_id \in Range(filter.MeetingIds)
           /\ filter.ShowVisibleOnly => r.visible = 1}

\* The records are exactly the rows of asked, one record for each.
ExactlyEvents(records, asked) ==
    /\ Len(records) = Cardinality(asked)
    /\ \A r \in asked : \E i \in 1..Len(records) : IsEvent(records[i], r)

ExactlyRaces(records, asked) ==
    /\ Len(records) = Cardinality(asked)
    /\ \A r \in asked : \E i \in 1..Len(records) : IsRace(records[i], r)

\* C1 as claimed: for every store state and every id, Get(id) returns the
\* stored record with that id and no error when such a row exists, and no
\* record and the NotFound error when no row has that id.
C1_GetReturnsRowOrNotFound ==
    (call.op = "Get" /\ Executed)
        => IF \E r \in events : r.id = call.id
           THEN /\ call.err = "nil"
                /\ Len(call.records) = 1
                /\ \E r \in events : r.id = call.id /\ IsEvent(call.records[1], r)
           ELSE /\ call.err = "NotFound"
                /\ call.records = <<>>

\* The part of C1 the code keeps: the same, for a stored row that scans
\* and converts.
GetReturnsReadableRowOrNotFound ==
    (call.op = "Get" /\ Executed)
        => /\ \A r \in events : (r.id = call.id /\ Readable(r))
                => /\ call.err = "nil"
                   /\ Len(call.records) = 1
                   /\ IsEvent(call.records[1], r)
           /\ (\A r \in events : r.id # call.id)
                => call.err = "NotFound" /\ call.records = <<>>

\* C2 as claimed: Get signals NotFound only when no stored row has the id;
\* when the row exists and cannot be scanned, or its start time cannot be
\* converted, Get returns that scan or conversion error.
C2_NotFoundOnlyWhenNoRow ==
    (call.op = "Get" /\ Executed)
        => /\ call.err = "NotFound" => \A r \in events : r.id # call.id
           /\ \A r \in events : (r.id = call.id /\ r.adv.kind = "null") => call.err = "ScanErr"
           /\ \A r \in events : (r.id = call.id /\ r.adv.kind = "far") => call.err = "TimestampErr"

\* C3 as claimed: for every store state and every filter, List returns
\* exactly the stored rows whose grouping id is in the filter's id list
\* (all rows when the filter is nil or has no ids; for races with
\* ShowVisibleOnly only the visible ones), and no error.
C3_ListReturnsRowsAsked ==
    /\ (call.op = "List" /\ Executed)
          => call.err = "nil" /\ ExactlyEvents(call.records, EventsAsked(call.filter))
    /\ (call.op = "ListRaces" /\ Executed)
          => call.err = "nil" /\ ExactlyRaces(call.records, RacesAsked(call.filter))

\* C3 as amended: for every store state and every filter, when every stored
\* row the filter asks for can be scanned and converted, List returns exactly
\* those rows and no error; zero records and no error when it asks for none.
C3_ListReturnsReadableRowsAsked ==
    /\ (call.op = "List" /\ Executed /\ \A r \in EventsAsked(call.filter) : Readable(r))
          => call.err = "nil" /\ ExactlyEvents(call.records, EventsAsked(call.filter))
    /\ (call.op = "ListRaces" /\ Executed /\ \A r \in RacesAsked(call.filter) : Readable(r))
          => call.err = "nil" /\ ExactlyRaces(call.records, RacesAsked(call.filter))

\* List has answered a filter of two sport ids on a table of two events,
\* one of them asked for.
C3_Witness ==
    /\ call.op = "List"
    /\ ~call.filter.nil
    /\ call.filter.SportIds = <<1, 1>>
    /\ Cardinality(events) = 2
    /\ \E r \in events : r.sport_id = 2
    /\ Len(call.records) = 1
    /\ call.err = "nil"

C14_UnreadableRowFailsWholeList ==
    (call.op = "List" /\ Executed /\ \E r \in EventsAsked(call.filter) : ~Readable(r))
        => /\ call.err \in {"ScanErr", "TimestampErr"}
           /\ call.records = <<>>

\* List ordered by id has answered for two asked rows, the first readable
\* and mapped, the second with a start time that does not convert.
C14_Witness ==
    /\ call.op = "List"
    /\ call.orderBy = IdCol
    /\ \E r, b \in EventsAsked(call.filter) :
          /\ r.id < b.id
          /\ Readable(r)
          /\ b.adv.kind = "far"
    /\ call.err = "TimestampErr"
    /\ call.records = <<>>

\* C9 as claimed: every race List returns has status OPEN (0) exactly when
\* its advertised start time is at or after the time of the query and CLOSED
\* (1) otherwise, and ordered by status every OPEN race comes before every
\* CLOSED race.
C9_StatusOpenIffNotStarted ==
    (call.op = "ListRaces" /\ call.err = "nil")
        => /\ \A i \in 1..Len(call.records) :
                 /\ call.records[i].Status \in {0, 1}
                 /\ call.records[i].Status = 0
                       <=> TickOf(call.records[i].AdvertisedStartTime) >= call.at
           /\ call.orderBy = <<"s","t","a","t","u","s">>
                 => \A i, j \in 1..Len(call.records) :
                        (call.records[i].Status = 0 /\ call.records[j].Status = 1) => i < j

\* The parts of C9 the code keeps: the status compares whole seconds, and
\* ordered by status OPEN comes before CLOSED.
RaceStatusByWholeSeconds ==
    (call.op = "ListRaces" /\ call.err = "nil")
        => /\ \A i \in 1..Len(call.records) :
                 call.records[i].Status
                    = IF call.records[i].AdvertisedStartTime.seconds >= call.at \div TicksPerSecond
                      THEN 0 ELSE 1
           /\ call.orderBy = <<"s","t","a","t","u","s">>
                 => \A i, j \in 1..Len(call.records) :
                        (call.records[i].Status = 0 /\ call.records[j].Status = 1) => i < j

-----------------------------------------------------------------------------
(* Properties of Init (SpecInit).                                          *)

\* C10: for any number of concurrent and successive Init calls on one
\* repository, in every interleaving the seed routine runs exactly once, by
\* the first caller to enter the guard, and is never run again, and no Init
\* call returns before that one run has finished.
C10_SeedRunsOnce ==
    /\ seed.runs <= 1
    /\ seed.runs = 1 => seed.by = seed.first
    /\ \A p \in DOMAIN pc :
          (pc[p] = "return" \/ calls[p] > 0) => (seed.runs = 1 /\ seed.finished = 1)

\* A caller that entered Init while the seed had not finished has waited
\* for the guard, found the seed done by the other caller and is leaving
\* without running it; the seeding caller has returned.
C10_Witness ==
    \E p, q \in DOMAIN pc :
        /\ p # q
        /\ seed.by = p
        /\ calls[p] >= 1
        /\ pc[q] = "unlock"
        /\ calls[q] = 0
        /\ seed.runs = 1
        /\ seed.finished = 1

\* C11: every Init call, the seeding one or not, returns the outcome of the
\* single seed run: nil if the seed completed, the seed's error if it failed.
C11_EveryInitObservesSeedOutcome ==
    \A p \in DOMAIN pc :
        calls[p] > 0 => ret[p] = seed.err

\* What the code does: the seeding call, the first of its caller, returns
\* what seed returned; every other call returns nil.
InitReturnsSeedErrorToSeederOnly ==
    \A p \in DOMAIN pc :
        calls[p] > 0
            => ret[p] = (IF seed.by = p /\ calls[p] = 1 THEN seed.err ELSE "nil")

\* C15: if the table-creation statement or any one insert statement of the
\* seed fails, the Init call that ran the seed returns a non-nil error, even
\* when later seed statements succeed.
C15_FailedSeedStatementIsReported ==
    \A p \in DOMAIN pc :
        (seed.by = p /\ calls[p] = 1 /\ seed.failed) => ret[p] # "nil"

\* What the code does: seed returns what its last insert statement returned.
SeedReturnsLastInsertError ==
    \A p \in DOMAIN pc :
        (seed.by = p /\ calls[p] = 1) => ret[p] \in {"nil", "InsertErr"}

=============================================================================
